---- MODULE Spec2Model ----
(***************************************************************************)
(* State-machine model of the WebGIS front-end (src/script.js): the        *)
(* Leaflet GeoJSON layer, the selection Map, the property key union, the   *)
(* attribute table, the asynchronous loads (API fetch, file read) and the  *)
(* exports.                                                                *)
(*                                                                         *)
(* Strings are sequences of one-character strings, so that quoting,        *)
(* escaping, joining and searching are computed as the code computes them. *)
(***************************************************************************)
EXTENDS Integers, Sequences, FiniteSets, TLC

(***************************************************************************)
(* Bounds of the model.                                                    *)
(***************************************************************************)
\* longest features array of a loaded FeatureCollection
MaxFeatures == 2
\* most loads (fetches, file reads) in flight at once
MaxPending == 2
\* largest Leaflet id handed out (caps the number of loads of a session)
MaxId == 3
\* coordinates of points, vertices and rectangle corners range over 0..GridMax
GridMax == 3

(***************************************************************************)
(* Generic helpers on sequences (JavaScript Array / String primitives).    *)
(***************************************************************************)
Range(s) == {s[i] : i \in 1..Len(s)}

\* Array.prototype.includes
Includes(s, x) == \E i \in 1..Len(s) : s[i] = x

RECURSIVE Concat(_)
\* concatenation of a sequence of strings
Concat(ss) == IF ss = <<>> THEN <<>> ELSE Head(ss) \o Concat(Tail(ss))

RECURSIVE Join(_, _)
\* Array.prototype.join
Join(ss, sep) ==
  IF ss = <<>> THEN <<>>
  ELSE IF Len(ss) = 1 THEN ss[1]
  ELSE ss[1] \o sep \o Join(Tail(ss), sep)

\* Array.prototype.map
Map(s, Op(_)) == [i \in 1..Len(s) |-> Op(s[i])]

\* remove the element at index i
RemoveAt(s, i) == SubSeq(s, 1, i - 1) \o SubSeq(s, i + 1, Len(s))

(***************************************************************************)
(* JSON values as the parsed GeoJSON holds them.                           *)
(***************************************************************************)
\* a property value: a string, a number or null
StrVal(s) == [t |-> "string", n |-> 0, s |-> s]
NumVal(n) == [t |-> "number", n |-> n, s |-> <<>>]
NullVal == [t |-> "null", n |-> 0, s |-> <<>>]

Digits == <<"0", "1", "2", "3", "4", "5", "6", "7", "8", "9">>

RECURSIVE NumToStr(_)
\* String(n) for a non-negative integer
NumToStr(n) ==
  IF n < 10 THEN <<Digits[n + 1]>>
  ELSE NumToStr(n \div 10) \o <<Digits[(n % 10) + 1]>>

\* String(v) of a property value
String(v) ==
  CASE v.t = "string" -> v.s
    [] v.t = "number" -> NumToStr(v.n)
    [] OTHER -> <<"n", "u", "l", "l">>

\* feature.properties: null, or an object whose own keys are kept in the
\* order Object.keys returns them
NoProps == [present |-> FALSE, kv |-> <<>>]
Props(kv) == [present |-> TRUE, kv |-> kv]

\* feature.properties || {}
PropsOrEmpty(feature) ==
  IF feature.properties.present THEN feature.properties.kv ELSE <<>>

\* Object.keys(props)
ObjectKeys(kv) == [i \in 1..Len(kv) |-> kv[i].k]

\* props[k] !== undefined
HasKey(kv, k) == \E i \in 1..Len(kv) : kv[i].k = k

\* props[k]
Lookup(kv, k) == kv[CHOOSE i \in 1..Len(kv) : kv[i].k = k].v

\* props[k] !== undefined ? String(props[k]) : ''
CellValue(kv, k) == IF HasKey(kv, k) THEN String(Lookup(kv, k)) ELSE <<>>

\* a position; GeoJSON [lng, lat] read by Leaflet as a LatLng
LatLng(lat, lng) == [lat |-> lat, lng |-> lng]

\* geometry: null, a Point, a LineString, a Polygon, or an object whose
\* type Leaflet does not know
Geometry(type, coords) == [type |-> type, coordinates |-> coords]
NoGeometry == Geometry("null", <<>>)

Feature(geom, props) == [geometry |-> geom, properties |-> props]

(***************************************************************************)
(* The features and documents the loads draw from.                         *)
(***************************************************************************)
K_id == <<"i", "d">>
K_city == <<"c", "i", "t", "y">>
K_comma == <<"a", ",", "b">>
K_n == <<"n">>

fA ==
  Feature(Geometry("Point", <<LatLng(2, 2)>>),
          Props(<<[k |-> K_id, v |-> NumVal(1)],
                  [k |-> K_city, v |-> StrVal(<<"X">>)]>>))

fB ==
  Feature(Geometry("Polygon", <<LatLng(0, 0), LatLng(0, 1), LatLng(1, 0)>>),
          Props(<<[k |-> K_city, v |-> StrVal(<<"a", "\"", "b">>)],
                  [k |-> K_comma, v |-> StrVal(<<"<">>)],
                  [k |-> K_n, v |-> NullVal]>>))

fC ==
  Feature(Geometry("LineString", <<LatLng(3, 0), LatLng(3, 1)>>), NoProps)

\* a feature without geometry: no layer is made for it
fNoGeom == Feature(NoGeometry, Props(<<[k |-> K_n, v |-> NumVal(0)]>>))

\* a feature whose geometry type Leaflet rejects
fBad ==
  Feature(Geometry("Bogus", <<LatLng(0, 0)>>),
          Props(<<[k |-> K_id, v |-> NumVal(3)]>>))

\* a feature whose property name and value hold HTML markup
K_markup == <<"<", "b", ">">>

fM ==
  Feature(Geometry("Point", <<LatLng(1, 2)>>),
          Props(<<[k |-> K_markup, v |-> StrVal(<<"&">>)]>>))

\* a parsed JSON document: a FeatureCollection, a single Feature object, or
\* any other value (an object with neither features nor geometry)
FeatureCollection(fs) == [type |-> "FeatureCollection", features |-> fs]
SingleFeature(f) == [type |-> "Feature", features |-> <<f>>]
OtherJson == [type |-> "Other", features |-> <<>>]

\* the documents a load of the session may deliver
Documents ==
  {FeatureCollection(<<>>), FeatureCollection(<<fA, fB>>), FeatureCollection(<<fC>>),
   FeatureCollection(<<fA, fNoGeom>>), FeatureCollection(<<fA, fBad>>),
   SingleFeature(fB), OtherJson}

\* collections with markup in a property name
MarkupDocuments ==
  {FeatureCollection(<<>>), FeatureCollection(<<fM>>), FeatureCollection(<<fA, fM>>),
   FeatureCollection(<<fM, fB>>)}

\* the collections the first load may deliver: every features array of up to
\* MaxFeatures features that Leaflet accepts
Collections ==
  {FeatureCollection(fs) :
     fs \in UNION {[1..n -> {fA, fB, fC, fNoGeom}] : n \in 0..MaxFeatures}}

\* obj.features && obj.features.length
HasFeatures(obj) == obj.type = "FeatureCollection" /\ Len(obj.features) > 0

(***************************************************************************)
(* Layers and styles.                                                      *)
(***************************************************************************)
\* fillOpacity is kept in hundredths
defaultStyle == [color |-> "#3388ff", weight |-> 2, fillOpacity |-> 20]
selectedStyle == [color |-> "#ff7800", weight |-> 3, fillOpacity |-> 35]

\* the layer Leaflet makes for a feature: a circle marker for a Point
\* (makePoint), a path otherwise; addData resets it to the default style
\* and addLayer stamps it with the next Leaflet id
MakeLayer(id, feature) == [id |-> id, feature |-> feature, style |-> defaultStyle]

\* geometryToLayer throws 'Invalid GeoJSON object.' on an unknown type
UnknownGeometry(feature) ==
  feature.geometry.type \notin {"null", "Point", "LineString", "Polygon"}

RECURSIVE AddFeatures(_, _, _)
\* addData on a features array: a feature without geometry is skipped, a
\* feature of unknown geometry type throws, leaving what was added before
AddFeatures(fs, acc, id) ==
  IF fs = <<>> THEN [layers |-> acc, threw |-> FALSE]
  ELSE IF Head(fs).geometry.type = "null" THEN AddFeatures(Tail(fs), acc, id)
  ELSE IF UnknownGeometry(Head(fs)) THEN [layers |-> acc, threw |-> TRUE]
  ELSE AddFeatures(Tail(fs), Append(acc, MakeLayer(id + 1, Head(fs))), id + 1)

\* geojsonLayer.addData(obj), the layer group being empty and `id` the last
\* Leaflet id handed out
AddData(obj, id) ==
  CASE obj.type = "FeatureCollection" -> AddFeatures(obj.features, <<>>, id)
    [] obj.type = "Feature" -> AddFeatures(obj.features, <<>>, id)
    [] OTHER -> [layers |-> <<>>, threw |-> TRUE]

\* layer.setStyle / geojsonLayer.resetStyle on the layer with this id
SetStyle(ls, lid, style) ==
  [i \in 1..Len(ls) |-> IF ls[i].id = lid THEN [ls[i] EXCEPT !.style = style] ELSE ls[i]]

(***************************************************************************)
(* The selection: a Map from Leaflet id to {feature, layer}, kept as the   *)
(* sequence of its entries in insertion order.                             *)
(***************************************************************************)
\* selected.has(lid)
Has(sel, lid) == \E i \in 1..Len(sel) : sel[i].lid = lid

\* selected.set(lid, {feature, layer}) for a key not yet present
SetEntry(sel, layer) == Append(sel, [lid |-> layer.id, feature |-> layer.feature])

\* selected.delete(lid)
DeleteEntry(sel, lid) == SelectSeq(sel, LAMBDA e : e.lid # lid)

SelectedIds(sel) == {sel[i].lid : i \in 1..Len(sel)}

\* faulty variant of Toggle: deselecting leaves the style as it is
ToggleWithoutReset(st, layer) ==
  IF Has(st.selected, layer.id)
  THEN [layers |-> st.layers, selected |-> DeleteEntry(st.selected, layer.id)]
  ELSE [layers |-> SetStyle(st.layers, layer.id, selectedStyle),
        selected |-> SetEntry(st.selected, layer)]

\* toggleSelect(layer), on the pair (layers, selected)
Toggle(st, layer) ==
  IF Has(st.selected, layer.id)
  THEN [layers |-> SetStyle(st.layers, layer.id, defaultStyle),
        selected |-> DeleteEntry(st.selected, layer.id)]
  ELSE [layers |-> SetStyle(st.layers, layer.id, selectedStyle),
        selected |-> SetEntry(st.selected, layer)]

\* selectLayer(gLayer)
SelectLayer(st, layer) ==
  IF Has(st.selected, layer.id) THEN st
  ELSE [layers |-> SetStyle(st.layers, layer.id, selectedStyle),
        selected |-> SetEntry(st.selected, layer)]

RECURSIVE SelectEach(_, _)
\* selectLayer on each layer of `ls` in turn
SelectEach(st, ls) ==
  IF ls = <<>> THEN st ELSE SelectEach(SelectLayer(st, Head(ls)), Tail(ls))

\* faulty variant of ResetEach: only the first entry's layer is reset
ResetFirst(ls, sel) ==
  IF sel = <<>> THEN ls ELSE SetStyle(ls, Head(sel).lid, defaultStyle)

RECURSIVE ResetEach(_, _)
\* selected.forEach(val => geojsonLayer.resetStyle(val.layer))
ResetEach(ls, sel) ==
  IF sel = <<>> THEN ls
  ELSE ResetEach(SetStyle(ls, Head(sel).lid, defaultStyle), Tail(sel))

(***************************************************************************)
(* Rectangle selection.                                                    *)
(***************************************************************************)
Min(S) == CHOOSE x \in S : \A y \in S : x <= y
Max(S) == CHOOSE x \in S : \A y \in S : x >= y

Bounds(sw, ne) == [sw |-> sw, ne |-> ne]

\* gLayer.getLatLng exists: the layer is a circle marker
HasLatLng(layer) == layer.feature.geometry.type = "Point"

\* gLayer.getLatLng()
GetLatLng(layer) == layer.feature.geometry.coordinates[1]

\* gLayer.getBounds(): the box around the layer's vertices
GetBounds(layer) ==
  LET cs == layer.feature.geometry.coordinates
      lats == {cs[i].lat : i \in 1..Len(cs)}
      lngs == {cs[i].lng : i \in 1..Len(cs)}
  IN Bounds(LatLng(Min(lats), Min(lngs)), LatLng(Max(lats), Max(lngs)))

\* faulty variant of Contains: a point on the edge is outside
ContainsStrictly(b, p) ==
  /\ p.lat > b.sw.lat /\ p.lat < b.ne.lat
  /\ p.lng > b.sw.lng /\ p.lng < b.ne.lng

\* L.LatLngBounds.contains(latlng)
Contains(b, p) ==
  /\ p.lat >= b.sw.lat /\ p.lat <= b.ne.lat
  /\ p.lng >= b.sw.lng /\ p.lng <= b.ne.lng

\* L.LatLngBounds.intersects(bounds)
Intersects(b, o) ==
  /\ o.ne.lat >= b.sw.lat /\ o.sw.lat <= b.ne.lat
  /\ o.ne.lng >= b.sw.lng /\ o.sw.lng <= b.ne.lng

\* the test of the CREATED handler for one layer
InRectangle(rect, layer) ==
  IF HasLatLng(layer) THEN Contains(rect, GetLatLng(layer))
  ELSE Intersects(rect, GetBounds(layer))

\* the layers the CREATED handler passes to selectLayer, in eachLayer order
RectangleHits(rect, ls) == SelectSeq(ls, LAMBDA l : InRectangle(rect, l))

\* faulty variant of RectangleSelect: the rectangle's features replace the
\* selection
RectangleReplace(st, rect) ==
  SelectEach([layers |-> ResetEach(st.layers, st.selected), selected |-> <<>>],
             SelectSeq(st.layers, LAMBDA l : InRectangle(rect, l)))

\* the CREATED handler, on the pair (layers, selected)
RectangleSelect(st, rect) == SelectEach(st, RectangleHits(rect, st.layers))

\* the rectangles a drag can draw
Rectangles ==
  {Bounds(LatLng(a, b), LatLng(c, d)) :
     <<a, b, c, d>> \in {q \in (0..GridMax) \X (0..GridMax) \X (0..GridMax) \X (0..GridMax) :
                           q[1] <= q[3] /\ q[2] <= q[4]}}

\* the rectangles drawn in the session: around fA alone, around fB alone,
\* around everything, around nothing
SessionRectangles ==
  {Bounds(LatLng(2, 2), LatLng(3, 3)), Bounds(LatLng(0, 0), LatLng(0, 1)),
   Bounds(LatLng(0, 0), LatLng(3, 3)), Bounds(LatLng(1, 2), LatLng(1, 3))}

(***************************************************************************)
(* The property key union.                                                 *)
(***************************************************************************)
\* faulty variant of PushNew: every key is pushed, seen before or not
PushAll(keys, ks) == keys \o ks

RECURSIVE PushNew(_, _)
\* ks.forEach(k => { if (!keys.includes(k)) keys.push(k); })
PushNew(keys, ks) ==
  IF ks = <<>> THEN keys
  ELSE PushNew(IF Includes(keys, Head(ks)) THEN keys ELSE Append(keys, Head(ks)),
               Tail(ks))

RECURSIVE ScanFeatures(_, _)
\* obj.features.forEach(f => { if (f.properties) ... })
ScanFeatures(fs, keys) ==
  IF fs = <<>> THEN keys
  ELSE ScanFeatures(Tail(fs),
                    IF Head(fs).properties.present
                    THEN PushNew(keys, ObjectKeys(Head(fs).properties.kv))
                    ELSE keys)

\* the key union loadGeoJSON computes for a document
KeyUnion(obj) == IF HasFeatures(obj) THEN ScanFeatures(obj.features, <<>>) ELSE <<>>

(***************************************************************************)
(* The attribute table.                                                    *)
(***************************************************************************)
\* the replacement escapeHtml makes for one character
EscapeChar(c) ==
  CASE c = "&" -> <<"&", "a", "m", "p", ";">>
    [] c = "<" -> <<"&", "l", "t", ";">>
    [] c = ">" -> <<"&", "g", "t", ";">>
    [] c = "\"" -> <<"&", "q", "u", "o", "t", ";">>
    [] OTHER -> <<c>>

escapeHtml(s) == Concat(Map(s, EscapeChar))

RECURSIVE SelectedKeys(_, _)
\* the keys of the selected features, first seen first
SelectedKeys(sel, keys) ==
  IF sel = <<>> THEN keys
  ELSE SelectedKeys(Tail(sel), PushNew(keys, ObjectKeys(PropsOrEmpty(Head(sel).feature))))

\* the columns updateAttributeTable shows: a copy of the key union, or the
\* selected features' own keys when the union is empty
TableKeys(keys, sel) ==
  IF Len(keys) = 0 /\ Len(sel) > 0 THEN SelectedKeys(sel, <<>>) ELSE keys

\* the source of the <th> cells of the header row
HeaderCells(keys) == <<<<"#">>>> \o keys

\* the source of the <td> cells of the i-th body row
BodyCells(keys, i, feature) ==
  <<NumToStr(i)>> \o Map(keys, LAMBDA k : escapeHtml(CellValue(PropsOrEmpty(feature), k)))

\* faulty variant of UpdateAttributeTable: the columns are built on the key
\* union itself, not on a copy of it
UpdateAttributeTableInPlace(keys, sel) ==
  LET cols == TableKeys(keys, sel)
  IN [head |-> HeaderCells(cols),
      body |-> [i \in 1..Len(sel) |->
                  [cells |-> BodyCells(cols, i, sel[i].feature), hidden |-> FALSE]],
      allPropertyKeys |-> cols]

\* updateAttributeTable(): the new table, every row displayed, and the key
\* union as the call leaves it (the columns are built on a copy)
UpdateAttributeTable(keys, sel) ==
  LET cols == TableKeys(keys, sel)
  IN [head |-> HeaderCells(cols),
      body |-> [i \in 1..Len(sel) |->
                  [cells |-> BodyCells(cols, i, sel[i].feature), hidden |-> FALSE]],
      allPropertyKeys |-> keys]

(***************************************************************************)
(* The table search.                                                       *)
(***************************************************************************)
UpperCase == <<"A", "B", "C", "D", "E", "F", "G", "H", "I", "J", "K", "L", "M",
               "N", "O", "P", "Q", "R", "S", "T", "U", "V", "W", "X", "Y", "Z">>
LowerCase == <<"a", "b", "c", "d", "e", "f", "g", "h", "i", "j", "k", "l", "m",
               "n", "o", "p", "q", "r", "s", "t", "u", "v", "w", "x", "y", "z">>

LowerChar(c) ==
  IF Includes(UpperCase, c)
  THEN LowerCase[CHOOSE i \in 1..Len(UpperCase) : UpperCase[i] = c]
  ELSE c

\* String.prototype.toLowerCase
ToLowerCase(s) == Map(s, LowerChar)

RECURSIVE TrimStart(_)
TrimStart(s) == IF s # <<>> /\ Head(s) = " " THEN TrimStart(Tail(s)) ELSE s

RECURSIVE TrimEnd(_)
TrimEnd(s) ==
  IF s # <<>> /\ s[Len(s)] = " " THEN TrimEnd(SubSeq(s, 1, Len(s) - 1)) ELSE s

\* String.prototype.trim
Trim(s) == TrimEnd(TrimStart(s))

\* txt.indexOf(q) >= 0
Found(txt, q) ==
  \E i \in 1..(Len(txt) + 1) :
    i + Len(q) - 1 <= Len(txt) /\ SubSeq(txt, i, i + Len(q) - 1) = q

IsPrefix(p, s) == Len(p) <= Len(s) /\ SubSeq(s, 1, Len(p)) = p

RECURSIVE TextOf(_)
\* the text the browser shows for the source of a cell: character
\* references are replaced by their characters
TextOf(src) ==
  IF src = <<>> THEN <<>>
  ELSE IF \E c \in {"&", "<", ">", "\""} : IsPrefix(EscapeChar(c), src)
  THEN LET c == CHOOSE x \in {"&", "<", ">", "\""} : IsPrefix(EscapeChar(x), src)
       IN <<c>> \o TextOf(SubSeq(src, Len(EscapeChar(c)) + 1, Len(src)))
  ELSE <<Head(src)>> \o TextOf(Tail(src))

\* r.textContent of a body row
TextContent(row) == Concat(Map(row.cells, TextOf))

\* the table-search input handler, on the body rows
ApplySearch(body, value) ==
  LET q == ToLowerCase(Trim(value))
  IN [i \in 1..Len(body) |->
        [body[i] EXCEPT !.hidden = ~Found(ToLowerCase(TextContent(body[i])), q)]]

\* what the user types into the search box
Queries == {<<>>, <<" ", "X">>}

(***************************************************************************)
(* The exports.                                                            *)
(***************************************************************************)
\* v.replace(/"/g, '""')
DoubleQuotes(v) == Concat(Map(v, LAMBDA c : IF c = "\"" THEN <<"\"", "\"">> ELSE <<c>>))

\* `"${v.replace(/"/g, '""')}"`
CsvField(v) == <<"\"">> \o DoubleQuotes(v) \o <<"\"">>

\* the header line of the CSV export
CsvHeader(keys) == Join(keys, <<",">>)

\* the line of the CSV export for one selected feature
CsvRow(keys, feature) ==
  Join(Map(keys, LAMBDA k : CsvField(CellValue(PropsOrEmpty(feature), k))), <<",">>)

\* the lines of the CSV export
CsvRows(keys, sel) ==
  <<CsvHeader(keys)>> \o [i \in 1..Len(sel) |-> CsvRow(keys, sel[i].feature)]

\* the text of the CSV export: rows.join('\n')
CsvText(keys, sel) == Join(CsvRows(keys, sel), <<"\n">>)

(***************************************************************************)
(* JSON text: JSON.stringify(value, null, 2) and JSON.parse.               *)
(***************************************************************************)
\* the names the model keeps as TLA+ strings, spelled out
Words ==
  {[name |-> "type", chars |-> <<"t", "y", "p", "e">>],
   [name |-> "features", chars |-> <<"f", "e", "a", "t", "u", "r", "e", "s">>],
   [name |-> "geometry", chars |-> <<"g", "e", "o", "m", "e", "t", "r", "y">>],
   [name |-> "properties", chars |-> <<"p", "r", "o", "p", "e", "r", "t", "i", "e", "s">>],
   [name |-> "coordinates", chars |-> <<"c", "o", "o", "r", "d", "i", "n", "a", "t", "e", "s">>],
   [name |-> "FeatureCollection",
    chars |-> <<"F", "e", "a", "t", "u", "r", "e", "C", "o", "l", "l", "e", "c", "t", "i", "o", "n">>],
   [name |-> "Feature", chars |-> <<"F", "e", "a", "t", "u", "r", "e">>],
   [name |-> "Point", chars |-> <<"P", "o", "i", "n", "t">>],
   [name |-> "LineString", chars |-> <<"L", "i", "n", "e", "S", "t", "r", "i", "n", "g">>],
   [name |-> "Polygon", chars |-> <<"P", "o", "l", "y", "g", "o", "n">>],
   [name |-> "Bogus", chars |-> <<"B", "o", "g", "u", "s">>]}

Chars(name) == (CHOOSE w \in Words : w.name = name).chars

NameOf(chars) ==
  IF \E w \in Words : w.chars = chars
  THEN (CHOOSE w \in Words : w.chars = chars).name
  ELSE "Other"

\* a JSON value: a string, a number, null, an array of values, or an object
\* (its members in order, each a key and a value)
JString(s) == [k |-> "string", n |-> 0, s |-> s, items |-> <<>>]
JNumber(n) == [k |-> "number", n |-> n, s |-> <<>>, items |-> <<>>]
JNull == [k |-> "null", n |-> 0, s |-> <<>>, items |-> <<>>]
JArray(items) == [k |-> "array", n |-> 0, s |-> <<>>, items |-> items]
JObject(members) == [k |-> "object", n |-> 0, s |-> <<>>, items |-> members]
Member(key, value) == [key |-> key, value |-> value]

\* a character of a string, as JSON.stringify writes it
EscapeJsonChar(c) ==
  CASE c = "\"" -> <<"\\", "\"">>
    [] c = "\\" -> <<"\\", "\\">>
    [] c = "\n" -> <<"\\", "n">>
    [] OTHER -> <<c>>

\* faulty variant of QuoteJson: the characters are written as they are
QuoteJsonRaw(s) == <<"\"">> \o s \o <<"\"">>

\* a string, as JSON.stringify writes it
QuoteJson(s) == <<"\"">> \o Concat(Map(s, EscapeJsonChar)) \o <<"\"">>

\* the indentation of a line nested `n` columns deep
Indent(n) == [i \in 1..n |-> " "]

RECURSIVE Stringify(_, _)
\* JSON.stringify(v, null, 2), v being nested `ind` columns deep
Stringify(v, ind) ==
  CASE v.k = "string" -> QuoteJson(v.s)
    [] v.k = "number" -> NumToStr(v.n)
    [] v.k = "array" ->
         IF v.items = <<>> THEN <<"[", "]">>
         ELSE <<"[", "\n">>
              \o Join([i \in 1..Len(v.items) |->
                         Indent(ind + 2) \o Stringify(v.items[i], ind + 2)], <<",", "\n">>)
              \o <<"\n">> \o Indent(ind) \o <<"]">>
    [] v.k = "object" ->
         IF v.items = <<>> THEN <<"{", "}">>
         ELSE <<"{", "\n">>
              \o Join([i \in 1..Len(v.items) |->
                         Indent(ind + 2) \o QuoteJson(v.items[i].key) \o <<":", " ">>
                         \o Stringify(v.items[i].value, ind + 2)], <<",", "\n">>)
              \o <<"\n">> \o Indent(ind) \o <<"}">>
    [] OTHER -> <<"n", "u", "l", "l">>

JSONStringify(v) == Stringify(v, 0)

IsWhitespace(c) == c \in {" ", "\n", "\t", "\r"}

IsDigit(c) == Includes(Digits, c)

DigitValue(c) == CHOOSE d \in 0..9 : Digits[d + 1] = c

RECURSIVE SkipWhitespace(_, _)
\* the first index from i on that holds no whitespace
SkipWhitespace(t, i) ==
  IF i <= Len(t) /\ IsWhitespace(t[i]) THEN SkipWhitespace(t, i + 1) ELSE i

RECURSIVE ParseString(_, _, _)
\* the string whose opening quote is before index i
ParseString(t, i, acc) ==
  IF t[i] = "\"" THEN [v |-> acc, next |-> i + 1]
  ELSE IF t[i] = "\\"
       THEN ParseString(t, i + 2, Append(acc, IF t[i + 1] = "n" THEN "\n" ELSE t[i + 1]))
       ELSE ParseString(t, i + 1, Append(acc, t[i]))

RECURSIVE ParseDigits(_, _, _)
ParseDigits(t, i, n) ==
  IF i <= Len(t) /\ IsDigit(t[i]) THEN ParseDigits(t, i + 1, 10 * n + DigitValue(t[i]))
  ELSE [v |-> n, next |-> i]

RECURSIVE ParseValue(_, _)
RECURSIVE ParseItems(_, _, _)
RECURSIVE ParseMembers(_, _, _)
\* the value that starts at index i0, whitespace skipped
ParseValue(t, i0) ==
  LET i == SkipWhitespace(t, i0)
  IN CASE t[i] = "\"" ->
            LET r == ParseString(t, i + 1, <<>>)
            IN [v |-> JString(r.v), next |-> r.next]
       [] t[i] = "[" ->
            LET j == SkipWhitespace(t, i + 1)
            IN IF t[j] = "]" THEN [v |-> JArray(<<>>), next |-> j + 1]
               ELSE ParseItems(t, j, <<>>)
       [] t[i] = "{" ->
            LET j == SkipWhitespace(t, i + 1)
            IN IF t[j] = "}" THEN [v |-> JObject(<<>>), next |-> j + 1]
               ELSE ParseMembers(t, j, <<>>)
       [] t[i] = "n" -> [v |-> JNull, next |-> i + 4]
       [] OTHER ->
            LET r == ParseDigits(t, i, 0)
            IN [v |-> JNumber(r.v), next |-> r.next]

\* the rest of an array, its items before index i being acc
ParseItems(t, i, acc) ==
  LET r == ParseValue(t, i)
      j == SkipWhitespace(t, r.next)
  IN IF t[j] = "," THEN ParseItems(t, j + 1, Append(acc, r.v))
     ELSE [v |-> JArray(Append(acc, r.v)), next |-> j + 1]

\* the rest of an object, its members before index i being acc
ParseMembers(t, i, acc) ==
  LET k == SkipWhitespace(t, i)
      key == ParseString(t, k + 1, <<>>)
      colon == SkipWhitespace(t, key.next)
      r == ParseValue(t, colon + 1)
      j == SkipWhitespace(t, r.next)
      member == Member(key.v, r.v)
  IN IF t[j] = "," THEN ParseMembers(t, j + 1, Append(acc, member))
     ELSE [v |-> JObject(Append(acc, member)), next |-> j + 1]

\* JSON.parse of a well-formed text
JSONParse(t) == ParseValue(t, 1).v

\* a GeoJSON position is [lng, lat]
PositionJson(p) == JArray(<<JNumber(p.lng), JNumber(p.lat)>>)

\* the coordinates member: a position for a Point, the positions for a
\* LineString, one ring of positions for a Polygon
CoordinatesJson(g) ==
  CASE g.type = "Point" -> PositionJson(g.coordinates[1])
    [] g.type = "Polygon" -> JArray(<<JArray(Map(g.coordinates, PositionJson))>>)
    [] OTHER -> JArray(Map(g.coordinates, PositionJson))

GeometryJson(g) ==
  IF g.type = "null" THEN JNull
  ELSE JObject(<<Member(Chars("type"), JString(Chars(g.type))),
                 Member(Chars("coordinates"), CoordinatesJson(g))>>)

PropertyJson(v) ==
  CASE v.t = "string" -> JString(v.s)
    [] v.t = "number" -> JNumber(v.n)
    [] OTHER -> JNull

PropertiesJson(p) ==
  IF p.present
  THEN JObject([i \in 1..Len(p.kv) |-> Member(p.kv[i].k, PropertyJson(p.kv[i].v))])
  ELSE JNull

\* a feature object as the load parsed it
FeatureJson(f) ==
  JObject(<<Member(Chars("type"), JString(Chars("Feature"))),
            Member(Chars("geometry"), GeometryJson(f.geometry)),
            Member(Chars("properties"), PropertiesJson(f.properties))>>)

\* the object { type: 'FeatureCollection', features: [...] }
CollectionJson(fs) ==
  JObject(<<Member(Chars("type"), JString(Chars("FeatureCollection"))),
            Member(Chars("features"), JArray(Map(fs, FeatureJson)))>>)

\* obj[key] of a parsed object; undefined reads as null
Get(obj, key) ==
  IF obj.k = "object" /\ \E i \in 1..Len(obj.items) : obj.items[i].key = key
  THEN obj.items[CHOOSE i \in 1..Len(obj.items) : obj.items[i].key = key].value
  ELSE JNull

JsonPosition(a) == LatLng(a.items[2].n, a.items[1].n)

\* the geometry Leaflet reads from a parsed feature
JsonGeometry(g) ==
  IF g.k # "object" THEN NoGeometry
  ELSE LET type == NameOf(Get(g, Chars("type")).s)
           cs == Get(g, Chars("coordinates"))
       IN Geometry(type,
                   CASE type = "Point" -> <<JsonPosition(cs)>>
                     [] type = "Polygon" -> Map(cs.items[1].items, JsonPosition)
                     [] OTHER -> Map(cs.items, JsonPosition))

JsonProperty(v) ==
  CASE v.k = "string" -> StrVal(v.s)
    [] v.k = "number" -> NumVal(v.n)
    [] OTHER -> NullVal

JsonProperties(p) ==
  IF p.k # "object" THEN NoProps
  ELSE Props([i \in 1..Len(p.items) |->
                [k |-> p.items[i].key, v |-> JsonProperty(p.items[i].value)]])

JsonFeature(f) ==
  Feature(JsonGeometry(Get(f, Chars("geometry"))), JsonProperties(Get(f, Chars("properties"))))

\* the parsed document as loadGeoJSON and addData read it
JsonDocument(obj) ==
  IF Get(obj, Chars("features")).k = "array"
  THEN FeatureCollection(Map(Get(obj, Chars("features")).items, JsonFeature))
  ELSE IF NameOf(Get(obj, Chars("type")).s) = "Feature" THEN SingleFeature(JsonFeature(obj))
  ELSE OtherJson

\* the FeatureCollection of the GeoJSON export
ExportedCollection(sel) ==
  FeatureCollection([i \in 1..Len(sel) |-> sel[i].feature])

\* no document
NoDoc == [type |-> "", features |-> <<>>]

NoDownload == [name |-> "", text |-> <<>>, json |-> NoDoc]

(***************************************************************************)
(* The API server (src/unnamed/part_001, server.js): request parameters,   *)
(* JavaScript numbers, the SQL statement, and the database that runs it.   *)
(***************************************************************************)
\* the default and the greatest row limit
DefaultLimit == 1000
MaxLimit == 10000

\* most rows in the database, its tables taken together
MaxRows == 2

\* a JavaScript number: NaN, an infinity (x its sign), or a finite number,
\* kept in tenths (x = 25 is 2.5)
NaN == [k |-> "NaN", x |-> 0]
Infinity(sign) == [k |-> "Infinity", x |-> sign]
Finite(tenths) == [k |-> "finite", x |-> tenths]
Whole(n) == Finite(10 * n)

\* Number.isFinite
IsFinite(n) == n.k = "finite"

\* a < b for numbers other than NaN
Less(a, b) ==
  CASE a.k = "Infinity" -> a.x < 0 /\ b # a
    [] b.k = "Infinity" -> b.x > 0
    [] OTHER -> a.x < b.x

\* Math.min(a, b)
MathMin(a, b) ==
  IF a.k = "NaN" \/ b.k = "NaN" THEN NaN
  ELSE IF Less(a, b) THEN a ELSE b

\* a || b for a number a: NaN and 0 are falsy
OrElse(a, b) == IF a.k = "NaN" \/ (a.k = "finite" /\ a.x = 0) THEN b ELSE a

\* the digits of s are all decimal digits
AllDigits(s) == \A i \in 1..Len(s) : IsDigit(s[i])

\* the value of a string of decimal digits; 0 for the empty string
DigitsValue(s) == ParseDigits(s, 1, 0).v

\* an unsigned decimal literal: digits, with at most one "." among them and
\* at least one digit; literals have at most one digit after the "."
UnsignedNumber(s) ==
  LET dots == {i \in 1..Len(s) : s[i] = "."}
      dot == IF dots = {} THEN Len(s) + 1 ELSE Min(dots)
      whole == SubSeq(s, 1, dot - 1)
      fraction == SubSeq(s, dot + 1, Len(s))
  IN IF /\ Cardinality(dots) <= 1
        /\ AllDigits(whole) /\ AllDigits(fraction)
        /\ Len(whole) + Len(fraction) >= 1
        /\ Len(fraction) <= 1
     THEN Finite(10 * DigitsValue(whole) + DigitsValue(fraction))
     ELSE NaN

\* -n
Negate(n) == IF n.k = "NaN" THEN NaN ELSE [n EXCEPT !.x = 0 - n.x]

S_Infinity == <<"I", "n", "f", "i", "n", "i", "t", "y">>

\* Number(s) for a string: whitespace is trimmed, the empty string is 0, a
\* signed decimal literal or Infinity is its value, anything else NaN
StringToNumber(s) ==
  LET t == Trim(s)
      signed == t # <<>> /\ Head(t) \in {"+", "-"}
      body == IF signed THEN Tail(t) ELSE t
      value == IF body = S_Infinity THEN Infinity(1) ELSE UnsignedNumber(body)
  IN IF t = <<>> THEN Finite(0)
     ELSE IF signed /\ Head(t) = "-" THEN Negate(value)
     ELSE value

\* String(n) for a number, as a template literal writes it
NumberToString(n) ==
  LET abs == IF n.x < 0 THEN 0 - n.x ELSE n.x
      sign == IF n.x < 0 THEN <<"-">> ELSE <<>>
  IN CASE n.k = "NaN" -> <<"N", "a", "N">>
       [] n.k = "Infinity" -> sign \o S_Infinity
       [] OTHER ->
            sign \o NumToStr(abs \div 10)
            \o (IF abs % 10 = 0 THEN <<>> ELSE <<".", Digits[(abs % 10) + 1]>>)

\* a value of req.query: undefined (the parameter is absent), a string, or
\* an array of strings (the parameter was given more than once)
Undefined == [k |-> "undefined", s |-> <<>>, ss |-> <<>>]
Str(s) == [k |-> "string", s |-> s, ss |-> <<>>]
Arr(ss) == [k |-> "array", s |-> <<>>, ss |-> ss]

\* the value is truthy: a non-empty string or an array
Truthy(p) == p.k = "array" \/ (p.k = "string" /\ p.s # <<>>)

\* String(p)
ParamToString(p) ==
  CASE p.k = "string" -> p.s
    [] p.k = "array" -> Join(p.ss, <<",">>)
    [] OTHER -> <<"u", "n", "d", "e", "f", "i", "n", "e", "d">>

\* Number(p): undefined is NaN, an array is converted through its string
ParamToNumber(p) == IF p.k = "undefined" THEN NaN ELSE StringToNumber(ParamToString(p))

RECURSIVE SplitOn(_, _, _, _)
\* String.prototype.split(sep): cur is the piece being read, acc those read
SplitOn(s, sep, cur, acc) ==
  IF s = <<>> THEN Append(acc, cur)
  ELSE IF Head(s) = sep THEN SplitOn(Tail(s), sep, <<>>, Append(acc, cur))
  ELSE SplitOn(Tail(s), sep, Append(cur, Head(s)), acc)

\* faulty variant of Limit: the limit is not capped
LimitUncapped(query) == OrElse(ParamToNumber(query.limit), Whole(DefaultLimit))

\* limit = Math.min(Number(req.query.limit) || 1000, 10000)
Limit(query) ==
  MathMin(OrElse(ParamToNumber(query.limit), Whole(DefaultLimit)), Whole(MaxLimit))

\* q = req.query.q ? String(req.query.q).trim() : null; null and the empty
\* string are both falsy, and are the empty string here
TextFilter(query) == IF Truthy(query.q) THEN Trim(ParamToString(query.q)) ELSE <<>>

\* req.query.bbox.split is not a function: the value is an array
BboxThrows(query) == query.bbox.k = "array"

\* bbox = req.query.bbox ? req.query.bbox.split(",").map(Number) : null;
\* null is the empty sequence here
Bbox(query) ==
  IF Truthy(query.bbox)
  THEN Map(SplitOn(query.bbox.s, ",", <<>>, <<>>), StringToNumber)
  ELSE <<>>

\* bbox && bbox.length === 4 && bbox.every(Number.isFinite)
BboxUsed(bbox) == Len(bbox) = 4 /\ \A i \in 1..Len(bbox) : IsFinite(bbox[i])

\* a value bound to a placeholder: a text or a number
TextParam(s) == [t |-> "text", s |-> s, n |-> Finite(0)]
NumberParam(n) == [t |-> "number", s |-> <<>>, n |-> n]

\* SQL text is a sequence of pieces: the literal pieces of the template,
\* and the characters of the values written into it
SelectPiece ==
  "SELECT jsonb_build_object('type','FeatureCollection','features', COALESCE(jsonb_agg(jsonb_build_object('type','Feature','geometry', ST_AsGeoJSON(geom)::jsonb,'properties', to_jsonb(row) - 'geom')), '[]'::jsonb)) AS geojson FROM (SELECT * FROM "
WherePiece == "WHERE "
AndPiece == " AND "
IlikePiece == "name ILIKE '%' || "
IlikeEndPiece == " || '%'"
EnvelopePiece == "ST_Intersects(geom, ST_MakeEnvelope("
CommaPiece == ", "
EnvelopeEndPiece == ", 4326))"
LimitPiece == " LIMIT "
EndPiece == ") row;"

\* `$${++i}` with i already incremented
Placeholder(i) == <<"$">> \o NumToStr(i)

\* `name ILIKE '%' || $${++i} || '%'`
IlikeClause(i) == <<IlikePiece>> \o Placeholder(i + 1) \o <<IlikeEndPiece>>

\* `ST_Intersects(geom, ST_MakeEnvelope($${++i}, $${++i}, $${++i}, $${++i}, 4326))`
EnvelopeClause(i) ==
  <<EnvelopePiece>> \o Placeholder(i + 1) \o <<CommaPiece>> \o Placeholder(i + 2)
  \o <<CommaPiece>> \o Placeholder(i + 3) \o <<CommaPiece>> \o Placeholder(i + 4)
  \o <<EnvelopeEndPiece>>

\* faulty variant of WhereOf: the text filter is written into the text
WhereInterpolated(q, bbox) ==
  [clauses |-> (IF q # <<>> THEN <<<<IlikePiece, "'">> \o q \o <<"'", IlikeEndPiece>>>> ELSE <<>>)
               \o (IF BboxUsed(bbox) THEN <<EnvelopeClause(0)>> ELSE <<>>),
   params |-> <<>> \o (IF BboxUsed(bbox) THEN Map(bbox, NumberParam) ELSE <<>>)]

\* the arrays `where` and `params` after both ifs
WhereOf(q, bbox) ==
  LET first == IF q # <<>>
               THEN [clauses |-> <<IlikeClause(0)>>, params |-> <<TextParam(q)>>]
               ELSE [clauses |-> <<>>, params |-> <<>>]
  IN IF BboxUsed(bbox)
     THEN [clauses |-> Append(first.clauses, EnvelopeClause(Len(first.params))),
           params |-> first.params \o Map(bbox, NumberParam)]
     ELSE first

\* whereSQL = where.length ? `WHERE ${where.join(" AND ")}` : ""
WhereSQL(clauses) ==
  IF clauses # <<>> THEN <<WherePiece>> \o Join(clauses, <<AndPiece>>) ELSE <<>>

\* the arguments of pool.query(sql, params) for a request on the table
BuildStatement(table, query) ==
  LET w == WhereOf(TextFilter(query), Bbox(query))
  IN [text |-> <<SelectPiece, table, " ">> \o WhereSQL(w.clauses)
               \o <<LimitPiece>> \o NumberToString(Limit(query)) \o <<EndPiece>>,
      params |-> w.params]


\* the index of text that holds the piece (a template's piece is there at
\* most once); 0 when none does
IndexOf(text, piece) ==
  IF Includes(text, piece) THEN CHOOSE i \in 1..Len(text) : text[i] = piece ELSE 0

\* the numbers of the placeholders of a statement
Placeholders(text) ==
  {ParseDigits(text, i + 1, 0).v : i \in {n \in 1..Len(text) : text[n] = "$"}}

\* the number of the placeholder that starts at index i, and the index
\* after it
ReadPlaceholder(text, i) == ParseDigits(text, i + 1, 0)

\* the value of the LIMIT clause
LimitOf(text) ==
  StringToNumber(SubSeq(text, IndexOf(text, LimitPiece) + 1, IndexOf(text, EndPiece) - 1))

\* the operand between the '%' of the ILIKE clause that starts at index i:
\* the value bound to a placeholder, or the characters of a string literal
IlikeOperand(text, params, i) ==
  IF text[i + 1] = "$"
  THEN params[ReadPlaceholder(text, i + 1).v].s
  ELSE SubSeq(text, i + 2, IndexOf(text, IlikeEndPiece) - 2)

\* name ILIKE '%' || $i || '%'
Ilike(row, text, params) ==
  LET i == IndexOf(text, IlikePiece)
  IN i # 0 =>
       Found(ToLowerCase(row.name), ToLowerCase(IlikeOperand(text, params, i)))

\* ST_Intersects(geom, ST_MakeEnvelope($i, $j, $k, $l, 4326)), geom being
\* the point (row.x, row.y)
InEnvelope(row, text, params) ==
  LET i == IndexOf(text, EnvelopePiece)
      p1 == ReadPlaceholder(text, i + 1)
      p2 == ReadPlaceholder(text, p1.next + 1)
      p3 == ReadPlaceholder(text, p2.next + 1)
      p4 == ReadPlaceholder(text, p3.next + 1)
      x1 == params[p1.v].n.x
      y1 == params[p2.v].n.x
      x2 == params[p3.v].n.x
      y2 == params[p4.v].n.x
  IN i # 0 =>
       /\ Min({x1, x2}) <= 10 * row.x /\ 10 * row.x <= Max({x1, x2})
       /\ Min({y1, y2}) <= 10 * row.y /\ 10 * row.y <= Max({y1, y2})

\* the rows of the table named in the statement that its WHERE lets through
Matching(text, params, tbls) ==
  {row \in tbls[text[IndexOf(text, SelectPiece) + 1]] :
     Ilike(row, text, params) /\ InEnvelope(row, text, params)}

\* what PostgreSQL does with the statement.  It raises an error for a
\* placeholder without a value or a value without a placeholder, for a
\* LIMIT that is no number and for a negative LIMIT.  Otherwise the inner
\* SELECT gives any `n` of the matching rows (LIMIT without ORDER BY), n
\* being the LIMIT rounded to an integer: `selections` are those sets.
QueryResult(text, params, tbls) ==
  LET limit == LimitOf(text)
      error == IF Placeholders(text) # 1..Len(params)
               THEN "bind message supplies the wrong number of parameters"
               ELSE IF ~IsFinite(limit) THEN "syntax error"
               ELSE IF limit.x < 0 THEN "LIMIT must not be negative"
               ELSE ""
      rows == Matching(text, params, tbls)
      n == (limit.x + 5) \div 10
  IN [error |-> error,
      selections |-> IF error # "" THEN {}
                     ELSE {chosen \in SUBSET rows :
                             Cardinality(chosen) = Min({Cardinality(rows), n})}]

\* the tables of the database
TableNames == {"public.blocks", "public.buildings"}

\* the rows a table may hold
Row(i) ==
  [id |-> i,
   name |-> IF i % 2 = 1 THEN <<"H", "a", "l", "l">> ELSE <<"h", "u", "t">>,
   x |-> i, y |-> i]

Rows == {Row(1), Row(2)}

NoRows == [t \in TableNames |-> {}]

\* req.query
Query(limit, q, bbox) == [limit |-> limit, q |-> q, bbox |-> bbox]

LimitCases ==
  {Undefined, Str(<<"a", "b", "c">>), Str(<<"0">>), Str(<<"-", "5">>),
   Str(<<"2", ".", "5">>), Str(<<"1">>), Str(<<"9", "9", "9", "9", "9", "9">>),
   Arr(<<<<"1">>, <<"2">>>>)}

TextCases == {Undefined, Str(<<"h", "a">>), Str(<<" ", "h", " ">>), Str(<<"'">>), Str(<<" ">>)}

BboxCases ==
  {Undefined, Str(<<"0", ",", "0", ",", "1", ",", "1">>), Str(<<"1", ",", ",", "2", ",", "3">>),
   Str(<<"a", ",", "0", ",", "1", ",", "1">>), Str(<<"0", ",", "0", ",", "1">>),
   Str(<<"0", ",", "0", ",", "I", "n", "f", "i", "n", "i", "t", "y", ",", "1">>),
   Arr(<<<<"0", ",", "0", ",", "1", ",", "1">>, <<"0", ",", "0", ",", "2", ",", "2">>>>)}

\* the requests: every limit with no filter, every text filter and every
\* bbox alone, and the two together, with and without a limit
Requests ==
  {Query(l, Undefined, Undefined) : l \in LimitCases}
  \cup {Query(Undefined, q, Undefined) : q \in TextCases}
  \cup {Query(Undefined, Undefined, b) : b \in BboxCases}
  \cup {Query(l, q, b) :
          l \in {Undefined, Str(<<"1">>)},
          q \in {Str(<<"h", "a">>), Str(<<"'">>)},
          b \in {Str(<<"0", ",", "0", ",", "1", ",", "1">>),
                 Str(<<"1", ",", ",", "2", ",", "3">>)}}

\* what pool.query gives back: the one row of the aggregate, a result
\* without a row, a row whose geojson is null, or a rejection (the
\* database cannot be reached)
Outcomes == {"row", "no row", "null", "rejected"}

NoRequest == [path |-> "", query |-> Query(Undefined, Undefined, Undefined)]
NoStatement == [text |-> <<>>, params |-> <<>>]
NoResponse == [status |-> 0, type |-> "", features |-> {}, error |-> "", cacheControl |-> ""]

\* res.json(geojson) after res.set("Cache-Control", "no-store")
Ok(features) ==
  [status |-> 200, type |-> "FeatureCollection", features |-> features, error |-> "",
   cacheControl |-> "no-store"]

\* res.status(500).json({ error: err.message })
ServerError(message) ==
  [status |-> 500, type |-> "error", features |-> {}, error |-> message, cacheControl |-> ""]

(***************************************************************************)
(* State.                                                                  *)
(***************************************************************************)
VARIABLES
  layers,           \* the layers of geojsonLayer, in eachLayer (id) order
  selected,         \* the selection Map, entries in insertion order
  allPropertyKeys,  \* the property key union
  lastId,           \* the last Leaflet id handed out to a feature layer
  pending,          \* the loads in flight, in the order they were started
  loading,          \* whether the loading indicator is displayed
  tableHead,        \* the header cells of the attribute table
  tableBody,        \* the body rows of the attribute table
  searchBox,        \* the text in the table-search box
  lastOp,           \* what the last handler reported: a completed load, an
                    \* alert, a document offered for download
  tables,           \* server: the rows of public.blocks and public.buildings
  request,          \* server: req.query of the last request, and its path
  statement,        \* server: the text and values last given to pool.query
  response          \* server: the status and body of the last response

vars ==
  <<layers, selected, allPropertyKeys, lastId, pending, loading, tableHead,
    tableBody, searchBox, lastOp, tables, request, statement, response>>

\* the state of the API server (server.js) and its database
serverVars == <<tables, request, statement, response>>

\* the state of the page (script.js)
clientVars ==
  <<layers, selected, allPropertyKeys, lastId, pending, loading, tableHead,
    tableBody, searchBox, lastOp>>

\* how a request of fetchBuildings fails: fetch() rejects ("rejected"), the
\* response is not ok and its text is read ("status"), the response is not
\* ok and resp.text() rejects ("text"), or the response is ok and
\* resp.json() rejects ("json").  `message` is the message of the rejection.
NoFailure == [kind |-> "", status |-> 0, body |-> "", message |-> ""]

Failures ==
  {[kind |-> "rejected", status |-> 0, body |-> "", message |-> "Failed to fetch"],
   [kind |-> "status", status |-> 500,
    body |-> "{\"error\":\"LIMIT must not be negative\"}", message |-> ""],
   [kind |-> "status", status |-> 404, body |-> "", message |-> ""],
   [kind |-> "text", status |-> 502, body |-> "", message |-> "network error"],
   [kind |-> "json", status |-> 200, body |-> "<html>",
    message |-> "Unexpected token '<', \"<html>\" is not valid JSON"]}

\* err.message of the error fetchBuildings throws:
\* `API ${resp.status}: ${await resp.text()}` when the response was not ok
\* and its text was read, else the message of the rejection
ErrorMessage(failure) ==
  IF failure.kind = "status"
  THEN <<"API ">> \o NumberToString(Whole(failure.status)) \o <<": ", failure.body>>
  ELSE <<failure.message>>

\* err.message of the error addData throws
InvalidGeoJSON == <<"Invalid GeoJSON object.">>

\* the last handler completed no load, raised no alert, offered no document.
\* `alert` is the first line of the alert; `error` is err.message, which
\* loadBuildingsFromAPI appends to it; `failure` is how the request failed;
\* `threw` says that the handler ended by an exception it did not catch.
Quiet ==
  [op |-> "", alert |-> "", doc |-> NoDoc, overtaken |-> FALSE,
   hadSelection |-> FALSE, download |-> NoDownload, failure |-> NoFailure,
   error |-> <<>>, threw |-> FALSE]

\* the last handler was this one; it raised no alert and offered no document
Ran(name) == [Quiet EXCEPT !.op = name]

\* a load that has just been started
Load(kind) == [kind |-> kind, overtaken |-> FALSE]

\* the script has run: nothing is loaded, and bootstrap() has called
\* loadBuildingsFromAPI(), whose fetch is in flight
Init ==
  /\ layers = <<>>
  /\ selected = <<>>
  /\ allPropertyKeys = <<>>
  /\ lastId = 0
  /\ pending = <<Load("api")>>
  /\ loading = TRUE
  /\ tableHead = <<>>
  /\ tableBody = <<>>
  /\ searchBox = <<>>
  /\ lastOp = Quiet
  /\ tables = NoRows
  /\ request = NoRequest
  /\ statement = NoStatement
  /\ response = NoResponse

(***************************************************************************)
(* Loading.                                                                *)
(***************************************************************************)
\* faulty variant of LoadGeoJSON: the selection is not cleared
LoadGeoJSONKeepingSelection(obj) ==
  LET added == AddData(obj, lastId)
      keys == KeyUnion(obj)
      table == UpdateAttributeTable(keys, selected)
  IN IF added.threw
     THEN [layers |-> added.layers, selected |-> selected, allPropertyKeys |-> <<>>,
           head |-> tableHead, body |-> tableBody, threw |-> TRUE]
     ELSE [layers |-> added.layers, selected |-> selected,
           allPropertyKeys |-> table.allPropertyKeys,
           head |-> table.head, body |-> table.body, threw |-> FALSE]

\* loadGeoJSON(obj): the state it leaves, and whether it threw.  When
\* addData throws, the layer group, the selection and the key union have
\* been cleared already and the table is not redrawn.
LoadGeoJSON(obj) ==
  LET added == AddData(obj, lastId)
      keys == KeyUnion(obj)
      table == UpdateAttributeTable(keys, <<>>)
  IN IF added.threw
     THEN [layers |-> added.layers, selected |-> <<>>, allPropertyKeys |-> <<>>,
           head |-> tableHead, body |-> tableBody, threw |-> TRUE]
     ELSE [layers |-> added.layers, selected |-> <<>>,
           allPropertyKeys |-> table.allPropertyKeys,
           head |-> table.head, body |-> table.body, threw |-> FALSE]

\* the loads still in flight once the i-th has completed; those started
\* before it have been overtaken
Completed(i) ==
  RemoveAt([j \in 1..Len(pending) |->
              IF j < i THEN [pending[j] EXCEPT !.overtaken = TRUE] ELSE pending[j]], i)

\* the report of the handler that completed the i-th load in flight
LoadOp(name, alert, doc, i) ==
  [op |-> name, alert |-> alert, doc |-> doc, overtaken |-> pending[i].overtaken,
   hadSelection |-> selected # <<>>, download |-> NoDownload,
   failure |-> NoFailure, error |-> <<>>, threw |-> FALSE]

\* the report of loadBuildingsFromAPI when loadGeoJSON(obj) has returned or
\* thrown
ApiLoadOp(obj, i) ==
  IF LoadGeoJSON(obj).threw
  THEN [LoadOp("loadBuildingsFromAPI", "Failed to load buildings from API.", obj, i)
          EXCEPT !.error = InvalidGeoJSON]
  ELSE LoadOp("loadBuildingsFromAPI", "", obj, i)

\* the state change of a completed load that reached loadGeoJSON
ApplyLoad(obj) ==
  LET r == LoadGeoJSON(obj)
  IN /\ Len(obj.features) + lastId <= MaxId
     /\ layers' = r.layers
     /\ selected' = r.selected
     /\ allPropertyKeys' = r.allPropertyKeys
     /\ lastId' = lastId + Len(r.layers)
     /\ tableHead' = r.head
     /\ tableBody' = r.body
     /\ UNCHANGED <<searchBox, serverVars>>

\* the reload-api click handler: loadBuildingsFromAPI() up to its await
ReloadApi ==
  /\ Len(pending) < MaxPending
  /\ pending' = Append(pending, Load("api"))
  /\ loading' = TRUE
  /\ lastOp' = Quiet
  /\ UNCHANGED <<serverVars, layers, selected, allPropertyKeys, lastId, tableHead, tableBody, searchBox>>

\* faulty variant of ApiLoaded: a response that a later request has
\* overtaken is dropped
ApiLoadedUnlessOvertaken(i, obj) ==
  /\ pending[i].kind = "api"
  /\ IF pending[i].overtaken
     THEN /\ Len(obj.features) + lastId <= MaxId
          /\ UNCHANGED <<serverVars, layers, selected, allPropertyKeys, lastId, tableHead,
                         tableBody, searchBox>>
     ELSE ApplyLoad(obj)
  /\ pending' = Completed(i)
  /\ loading' = FALSE
  /\ lastOp' = ApiLoadOp(obj, i)

\* loadBuildingsFromAPI() resumed with the response body gj
ApiLoaded(i, obj) ==
  /\ pending[i].kind = "api"
  /\ ApplyLoad(obj)
  /\ pending' = Completed(i)
  /\ loading' = FALSE
  /\ lastOp' = ApiLoadOp(obj, i)

\* the report of loadBuildingsFromAPI when fetchBuildings has thrown
FetchFailedOp(i, failure) ==
  [LoadOp("fetchBuildings", "Failed to load buildings from API.", NoDoc, i)
     EXCEPT !.failure = failure, !.error = ErrorMessage(failure)]

\* faulty variant of ApiFailed: the display is cleared before the request
ApiFailedAfterClear(i, failure) ==
  /\ pending[i].kind = "api"
  /\ pending' = Completed(i)
  /\ loading' = FALSE
  /\ lastOp' = FetchFailedOp(i, failure)
  /\ layers' = <<>>
  /\ selected' = <<>>
  /\ allPropertyKeys' = <<>>
  /\ UNCHANGED <<serverVars, lastId, tableHead, tableBody, searchBox>>

\* loadBuildingsFromAPI() resumed with fetchBuildings having thrown: the
\* fetch was rejected, the status was not ok, or the body was not JSON
ApiFailed(i, failure) ==
  /\ pending[i].kind = "api"
  /\ pending' = Completed(i)
  /\ loading' = FALSE
  /\ lastOp' = FetchFailedOp(i, failure)
  /\ UNCHANGED <<serverVars, layers, selected, allPropertyKeys, lastId, tableHead, tableBody, searchBox>>

\* the file-input change handler: reader.readAsText(f)
FileInputChange ==
  /\ Len(pending) < MaxPending
  /\ pending' = Append(pending, Load("file"))
  /\ lastOp' = Quiet
  /\ UNCHANGED <<serverVars, layers, selected, allPropertyKeys, lastId, loading, tableHead, tableBody, searchBox>>

\* reader.onload with text that parses to obj
FileLoaded(i, obj) ==
  /\ pending[i].kind = "file"
  /\ ApplyLoad(obj)
  /\ pending' = Completed(i)
  /\ lastOp' = LoadOp("reader.onload",
                      IF LoadGeoJSON(obj).threw THEN "Invalid GeoJSON file." ELSE "",
                      obj, i)
  /\ UNCHANGED loading

\* reader.onload with text JSON.parse rejects
FileInvalid(i) ==
  /\ pending[i].kind = "file"
  /\ pending' = Completed(i)
  /\ lastOp' = LoadOp("JSON.parse", "Invalid GeoJSON file.", NoDoc, i)
  /\ UNCHANGED <<serverVars, layers, selected, allPropertyKeys, lastId, loading, tableHead, tableBody, searchBox>>

(***************************************************************************)
(* Selection, search and export handlers.                                  *)
(***************************************************************************)
Current == [layers |-> layers, selected |-> selected]

\* a selection handler leaves the pair st and then redraws the table
Selection(st, name) ==
  LET table == UpdateAttributeTable(allPropertyKeys, st.selected)
  IN /\ layers' = st.layers
     /\ selected' = st.selected
     /\ allPropertyKeys' = table.allPropertyKeys
     /\ tableHead' = table.head
     /\ tableBody' = table.body
     /\ lastOp' = Ran(name)
     /\ UNCHANGED <<serverVars, lastId, pending, loading, searchBox>>

\* a click on the i-th layer
ToggleSelect(i) == Selection(Toggle(Current, layers[i]), "toggleSelect")

\* the select-all click handler
SelectAll == Selection(SelectEach(Current, layers), "select-all")

\* the pair the deselect-all and clear-selection handlers leave
Cleared == [layers |-> ResetEach(layers, selected), selected |-> <<>>]

\* the deselect-all click handler
DeselectAll == Selection(Cleared, "deselect-all")

\* the clear-selection click handler
ClearSelection == Selection(Cleared, "clear-selection")

\* the L.Draw.Event.CREATED handler for a drawn rectangle
DrawCreated(rect) == Selection(RectangleSelect(Current, rect), "draw:created")

\* the table-search input handler
TableSearch(value) ==
  /\ searchBox' = value
  /\ tableBody' = ApplySearch(tableBody, value)
  /\ lastOp' = Quiet
  /\ UNCHANGED <<serverVars, layers, selected, allPropertyKeys, lastId, pending, loading, tableHead>>

\* the report of an export handler
ExportOp(name, alert, doc) ==
  [Quiet EXCEPT !.op = name, !.alert = alert, !.download = doc]

\* the export-geojson click handler
ExportGeoJSON ==
  /\ lastOp' = IF Len(selected) = 0
               THEN ExportOp("export-geojson", "No features selected", NoDownload)
               ELSE ExportOp("export-geojson", "",
                             [name |-> "selected_features.geojson",
                              text |-> JSONStringify(CollectionJson(ExportedCollection(selected).features)),
                              json |-> ExportedCollection(selected)])
  /\ UNCHANGED <<serverVars, layers, selected, allPropertyKeys, lastId, pending, loading,
                 tableHead, tableBody, searchBox>>

\* faulty variant of ExportCSV: no check that something is selected
ExportCSVUnchecked ==
  /\ lastOp' = ExportOp("export-csv", "",
                        [name |-> "selected_features.csv",
                         text |-> CsvText(allPropertyKeys, selected),
                         json |-> NoDoc])
  /\ UNCHANGED <<serverVars, layers, selected, allPropertyKeys, lastId, pending, loading,
                 tableHead, tableBody, searchBox>>

\* the export-csv click handler
ExportCSV ==
  /\ lastOp' = IF Len(selected) = 0
               THEN ExportOp("export-csv", "No features selected", NoDownload)
               ELSE ExportOp("export-csv", "",
                             [name |-> "selected_features.csv",
                              text |-> CsvText(allPropertyKeys, selected),
                              json |-> NoDoc])
  /\ UNCHANGED <<serverVars, layers, selected, allPropertyKeys, lastId, pending, loading,
                 tableHead, tableBody, searchBox>>

(***************************************************************************)
(* Selection when style calls throw.  `faulty` holds the Leaflet ids of    *)
(* the layers whose setStyle throws, which is the case the try/catch       *)
(* blocks of script.js provide for.  The operators above are these with no *)
(* faulty layer.                                                           *)
(***************************************************************************)
\* try { layer.setStyle(style) } catch {}, and
\* try { geojsonLayer.resetStyle(layer) } catch {}
TrySetStyle(ls, lid, style, faulty) ==
  IF lid \in faulty THEN ls ELSE SetStyle(ls, lid, style)

\* toggleSelect(layer): resetStyle of the deselecting branch is called
\* outside any try, so its exception ends the function after the delete
ToggleOrThrow(st, layer, faulty) ==
  IF Has(st.selected, layer.id)
  THEN [layers |-> TrySetStyle(st.layers, layer.id, defaultStyle, faulty),
        selected |-> DeleteEntry(st.selected, layer.id),
        threw |-> layer.id \in faulty]
  ELSE [layers |-> TrySetStyle(st.layers, layer.id, selectedStyle, faulty),
        selected |-> SetEntry(st.selected, layer),
        threw |-> FALSE]

\* selectLayer(gLayer)
SelectLayerOrCatch(st, layer, faulty) ==
  IF Has(st.selected, layer.id) THEN st
  ELSE [layers |-> TrySetStyle(st.layers, layer.id, selectedStyle, faulty),
        selected |-> SetEntry(st.selected, layer),
        threw |-> FALSE]

RECURSIVE SelectEachOrCatch(_, _, _)
\* selectLayer on each layer of `ls` in turn
SelectEachOrCatch(st, ls, faulty) ==
  IF ls = <<>> THEN st
  ELSE SelectEachOrCatch(SelectLayerOrCatch(st, Head(ls), faulty), Tail(ls), faulty)

RECURSIVE ResetEachOrCatch(_, _, _)
\* selected.forEach(val => { try { geojsonLayer.resetStyle(val.layer) } catch {} })
ResetEachOrCatch(ls, sel, faulty) ==
  IF sel = <<>> THEN ls
  ELSE ResetEachOrCatch(TrySetStyle(ls, Head(sel).lid, defaultStyle, faulty),
                        Tail(sel), faulty)

CurrentCaught == [layers |-> layers, selected |-> selected, threw |-> FALSE]

\* a selection handler leaves the triple st; it redraws the table unless an
\* exception ended it before
SelectionOrThrow(st, name) ==
  LET table == UpdateAttributeTable(allPropertyKeys, st.selected)
  IN /\ layers' = st.layers
     /\ selected' = st.selected
     /\ allPropertyKeys' = IF st.threw THEN allPropertyKeys ELSE table.allPropertyKeys
     /\ tableHead' = IF st.threw THEN tableHead ELSE table.head
     /\ tableBody' = IF st.threw THEN tableBody ELSE table.body
     /\ lastOp' = [Ran(name) EXCEPT !.threw = st.threw]
     /\ UNCHANGED <<serverVars, lastId, pending, loading, searchBox>>

\* a click on the i-th layer
ToggleSelectOrThrow(i, faulty) ==
  SelectionOrThrow(ToggleOrThrow(CurrentCaught, layers[i], faulty), "toggleSelect")

\* the select-all click handler
SelectAllOrCatch(faulty) ==
  SelectionOrThrow(SelectEachOrCatch(CurrentCaught, layers, faulty), "select-all")

\* the pair the deselect-all and clear-selection handlers leave
ClearedOrCatch(faulty) ==
  [layers |-> ResetEachOrCatch(layers, selected, faulty), selected |-> <<>>,
   threw |-> FALSE]

\* the deselect-all click handler
DeselectAllOrCatch(faulty) == SelectionOrThrow(ClearedOrCatch(faulty), "deselect-all")

\* the clear-selection click handler
ClearSelectionOrCatch(faulty) == SelectionOrThrow(ClearedOrCatch(faulty), "clear-selection")

\* the L.Draw.Event.CREATED handler for a drawn rectangle
DrawCreatedOrCatch(rect, faulty) ==
  SelectionOrThrow(SelectEachOrCatch(CurrentCaught, RectangleHits(rect, layers), faulty),
                   "draw:created")

\* the sets of layers whose style calls throw
Faults == SUBSET (1..MaxId)

(***************************************************************************)
(* The API server's handlers, and the edits made to its tables.            *)
(***************************************************************************)
\* a row is inserted into a table (an edit made in QGIS)
InsertRow(table, row) ==
  /\ Cardinality(tables["public.blocks"]) + Cardinality(tables["public.buildings"]) < MaxRows
  /\ row \notin tables[table]
  /\ tables' = [tables EXCEPT ![table] = @ \cup {row}]
  /\ UNCHANGED <<request, statement, response, clientVars>>

\* a row is deleted from a table
DeleteRow(table, row) ==
  /\ row \in tables[table]
  /\ tables' = [tables EXCEPT ![table] = @ \ {row}]
  /\ UNCHANGED <<request, statement, response, clientVars>>

\* the handler of GET /blocks and of GET /buildings, on its table.  The
\* database answers with one of Outcomes; when it answers with the row of
\* the aggregate, the inner SELECT has kept one of the result's selections.
Handle(path, table, query) ==
  /\ request' = [path |-> path, query |-> query]
  /\ IF BboxThrows(query)
     THEN /\ statement' = NoStatement
          /\ response' = ServerError("req.query.bbox.split is not a function")
     ELSE \E st \in {BuildStatement(table, query)} :
            \E result \in {QueryResult(st.text, st.params, tables)} :
              /\ statement' = st
              /\ \E outcome \in Outcomes :
                   CASE outcome = "rejected" -> response' = ServerError("connect ECONNREFUSED")
                     [] result.error # "" -> response' = ServerError(result.error)
                     [] outcome = "row" ->
                          \E chosen \in result.selections : response' = Ok(chosen)
                     [] OTHER -> response' = Ok({})
  /\ UNCHANGED <<tables, clientVars>>

\* GET /blocks
GetBlocks(query) == Handle("/blocks", "public.blocks", query)

\* GET /buildings
GetBuildings(query) == Handle("/buildings", "public.buildings", query)

(***************************************************************************)
(* The specifications.                                                     *)
(***************************************************************************)
\* the session: loads overlap, complete in any order, fail; the user
\* selects, searches and exports in between
Next ==
  \/ ReloadApi
  \/ \E i \in 1..Len(pending), obj \in Documents : ApiLoaded(i, obj)
  \/ \E i \in 1..Len(pending), failure \in Failures : ApiFailed(i, failure)
  \/ FileInputChange
  \/ \E i \in 1..Len(pending), obj \in Documents : FileLoaded(i, obj)
  \/ \E i \in 1..Len(pending) : FileInvalid(i)
  \/ \E i \in 1..Len(layers) : ToggleSelect(i)
  \/ SelectAll
  \/ DeselectAll
  \/ ClearSelection
  \/ \E rect \in SessionRectangles : DrawCreated(rect)
  \/ \E value \in Queries : TableSearch(value)
  \/ ExportGeoJSON
  \/ ExportCSV

Spec == Init /\ [][Next]_vars

\* the first load delivers any collection; the user then selects with any
\* rectangle and exports
FirstLoadNext ==
  \/ \E i \in 1..Len(pending), obj \in Collections : ApiLoaded(i, obj)
  \/ \E i \in 1..Len(layers) : ToggleSelect(i)
  \/ SelectAll
  \/ DeselectAll
  \/ \E rect \in Rectangles : DrawCreated(rect)
  \/ ExportGeoJSON
  \/ ExportCSV

FirstLoadSpec == Init /\ [][FirstLoadNext]_vars

\* the server: requests of any kind arrive while the tables are edited
ServerNext ==
  \/ \E table \in TableNames, row \in Rows : InsertRow(table, row)
  \/ \E table \in TableNames, row \in Rows : DeleteRow(table, row)
  \/ \E query \in Requests : GetBlocks(query)
  \/ \E query \in Requests : GetBuildings(query)

ServerSpec == Init /\ [][ServerNext]_vars

\* the selection handlers while the style calls of some layers throw
StyleNext ==
  \/ ReloadApi
  \/ \E i \in 1..Len(pending), obj \in Documents : ApiLoaded(i, obj)
  \/ \E i \in 1..Len(layers), faulty \in Faults : ToggleSelectOrThrow(i, faulty)
  \/ \E faulty \in Faults : SelectAllOrCatch(faulty)
  \/ \E faulty \in Faults : DeselectAllOrCatch(faulty)
  \/ \E faulty \in Faults : ClearSelectionOrCatch(faulty)
  \/ \E rect \in SessionRectangles, faulty \in Faults : DrawCreatedOrCatch(rect, faulty)

StyleSpec == Init /\ [][StyleNext]_vars

\* the table while collections with markup in a property name are loaded
\* and selected from
TableNext ==
  \/ ReloadApi
  \/ \E i \in 1..Len(pending), obj \in MarkupDocuments : ApiLoaded(i, obj)
  \/ \E i \in 1..Len(layers) : ToggleSelect(i)
  \/ SelectAll
  \/ DeselectAll
  \/ ClearSelection
  \/ \E rect \in SessionRectangles : DrawCreated(rect)

TableSpec == Init /\ [][TableNext]_vars

(***************************************************************************)
(* Properties.                                                             *)
(***************************************************************************)
\* the handlers that complete a load by calling loadGeoJSON
LoadOps == {"loadBuildingsFromAPI", "reader.onload"}

\* the last handler loaded a FeatureCollection and loadGeoJSON returned
LoadedCollection ==
  /\ lastOp.op \in LoadOps
  /\ lastOp.alert = ""
  /\ lastOp.doc.type = "FeatureCollection"

Ids(sel) == [i \in 1..Len(sel) |-> sel[i].lid]

\* C1: every entry of the selection is a layer of the loaded collection,
\* with that layer's feature; and when a load has just completed, the
\* selection is empty, whatever was selected before.
C1_SelectionWithinCollection ==
  /\ \A i \in 1..Len(selected) :
       \E j \in 1..Len(layers) :
         layers[j].id = selected[i].lid /\ layers[j].feature = selected[i].feature
  /\ lastOp.op \in LoadOps => selected = <<>>

\* a load has replaced a collection in which features were selected
C1_LoadOverSelection ==
  /\ lastOp.op \in LoadOps
  /\ lastOp.hadSelection
  /\ lastOp.alert = ""
  /\ layers # <<>>

\* a completed load of malformed input: text that is not JSON, or a value
\* that is not a FeatureCollection
MalformedLoad(op) ==
  \/ op.op = "JSON.parse"
  \/ op.op \in LoadOps /\ op.doc.type # "FeatureCollection"

\* C2: a load of malformed input raises an alert and leaves the layers, the
\* selection and the key union as they were.
C2_MalformedLoadLeavesState ==
  [][MalformedLoad(lastOp') =>
       /\ lastOp'.alert # ""
       /\ UNCHANGED <<layers, selected, allPropertyKeys>>]_vars

\* the features of a collection that have a geometry
WithGeometry(fs) == SelectSeq(fs, LAMBDA f : f.geometry.type # "null")

\* the property names on the features of a collection
KeysOf(fs) ==
  UNION {Range(ObjectKeys(fs[i].properties.kv)) : i \in 1..Len(fs)}

\* C3: when a load completes with a collection, the layers, the key union
\* and the (empty) selection are that collection's, whether or not a load
\* started later has completed before it.
C3_LastCompletedLoadWins ==
  LoadedCollection =>
    /\ [i \in 1..Len(layers) |-> layers[i].feature] = WithGeometry(lastOp.doc.features)
    /\ Range(allPropertyKeys) = KeysOf(lastOp.doc.features)
    /\ selected = <<>>

\* both loads have completed; the one that completed last was started
\* first, and replaced a collection in which features were selected
C3_OlderLoadCompletedLast ==
  /\ LoadedCollection
  /\ lastOp.overtaken
  /\ lastOp.hadSelection
  /\ layers # <<>>
  /\ pending = <<>>

\* where key k is first seen in a features array: the feature, and the
\* place among that feature's keys
FirstSeen(fs, k) ==
  LET i == Min({n \in 1..Len(fs) : HasKey(fs[n].properties.kv, k)})
      ks == ObjectKeys(fs[i].properties.kv)
  IN <<i, Min({n \in 1..Len(ks) : ks[n] = k})>>

Earlier(a, b) == a[1] < b[1] \/ (a[1] = b[1] /\ a[2] < b[2])

\* C4: after a collection is loaded, the key union holds every property
\* name of its features, no other name, none twice, first seen first.
C4_KeyUnionFirstSeenOrder ==
  LoadedCollection =>
    /\ Range(allPropertyKeys) = KeysOf(lastOp.doc.features)
    /\ \A i, j \in 1..Len(allPropertyKeys) :
         i < j =>
           /\ allPropertyKeys[i] # allPropertyKeys[j]
           /\ Earlier(FirstSeen(lastOp.doc.features, allPropertyKeys[i]),
                      FirstSeen(lastOp.doc.features, allPropertyKeys[j]))

\* fB then fA has been loaded: `city` is on both, `id` comes last
C4_SharedKeyLoaded ==
  /\ LoadedCollection
  /\ lastOp.doc.features = <<fB, fA>>
  /\ allPropertyKeys = <<K_city, K_comma, K_n, K_id>>

\* C5: only a step that completes a load changes the key union.
C5_KeyUnionChangesOnlyOnLoad ==
  [][allPropertyKeys' # allPropertyKeys => lastOp'.op \in LoadOps]_vars

\* fA alone is selected and exported; the key of fB is still a column
C5_UnselectedKeyIsColumn ==
  /\ lastOp.op = "export-csv"
  /\ Len(selected) = 1
  /\ selected[1].feature = fA
  /\ Includes(allPropertyKeys, K_comma)
  /\ Includes(tableHead, K_comma)

\* C6: toggling a layer twice leaves the set of selected ids and the style
\* of every layer as they were.
C6_ToggleTwiceRestores ==
  \A i \in 1..Len(layers) :
    LET once == Toggle(Current, layers[i])
        twice == Toggle(once, once.layers[i])
    IN /\ SelectedIds(twice.selected) = SelectedIds(selected)
       /\ twice.layers = layers

\* a toggle has just run, and one of two layers is selected
C6_ToggledOneOfTwo ==
  /\ lastOp.op = "toggleSelect"
  /\ Len(layers) = 2
  /\ Len(selected) = 1

\* C7: a rectangle selection keeps every entry selected before it, in
\* place, and a second selection with the same rectangle changes nothing.
C7_RectangleIsMonotonicUnion ==
  \A rect \in Rectangles :
    LET once == RectangleSelect(Current, rect)
        twice == RectangleSelect(once, rect)
    IN /\ Len(once.selected) >= Len(selected)
       /\ \A i \in 1..Len(selected) : once.selected[i] = selected[i]
       /\ SelectedIds(twice.selected) = SelectedIds(once.selected)
       /\ twice = once

\* a rectangle has added a layer to a selection that held a later one
C7_RectangleAddedToSelection ==
  /\ lastOp.op = "draw:created"
  /\ Len(selected) >= 2
  /\ selected[1].lid > selected[2].lid

\* closed intervals a1..a2 and b1..b2 share a point
AxisOverlap(a1, a2, b1, b2) == \E x \in a1..a2 : x \in b1..b2

\* what the rectangle is to select: a point within it, edges included; any
\* other shape whose vertices' box it overlaps on both axes
ToSelect(rect, layer) ==
  LET cs == layer.feature.geometry.coordinates
  IN IF layer.feature.geometry.type = "Point"
     THEN /\ cs[1].lat \in rect.sw.lat..rect.ne.lat
          /\ cs[1].lng \in rect.sw.lng..rect.ne.lng
     ELSE /\ AxisOverlap(Min({cs[i].lat : i \in 1..Len(cs)}),
                         Max({cs[i].lat : i \in 1..Len(cs)}),
                         rect.sw.lat, rect.ne.lat)
          /\ AxisOverlap(Min({cs[i].lng : i \in 1..Len(cs)}),
                         Max({cs[i].lng : i \in 1..Len(cs)}),
                         rect.sw.lng, rect.ne.lng)

\* C8: the ids a rectangle selection adds are exactly those of the layers
\* the rectangle is to select.
C8_RectangleSelectsExactly ==
  \A rect \in Rectangles :
    SelectedIds(RectangleSelect(Current, rect).selected) \ SelectedIds(selected)
      = {layers[i].id : i \in {n \in 1..Len(layers) : ToSelect(rect, layers[n])}}
          \ SelectedIds(selected)

\* a rectangle has selected a point and left another shape unselected
C8_RectangleSelectedPointOnly ==
  /\ lastOp.op = "draw:created"
  /\ \E i \in 1..Len(layers) :
       layers[i].feature.geometry.type = "Point" /\ Has(selected, layers[i].id)
  /\ \E i \in 1..Len(layers) :
       layers[i].feature.geometry.type # "Point" /\ ~Has(selected, layers[i].id)

RECURSIVE Split(_, _, _, _, _)
\* a CSV text read back: cut at every separator that is outside double
\* quotes
Split(text, sep, quoted, cur, acc) ==
  IF text = <<>> THEN Append(acc, cur)
  ELSE IF Head(text) = "\"" THEN Split(Tail(text), sep, ~quoted, Append(cur, "\""), acc)
  ELSE IF Head(text) = sep /\ ~quoted THEN Split(Tail(text), sep, quoted, <<>>, Append(acc, cur))
  ELSE Split(Tail(text), sep, quoted, Append(cur, Head(text)), acc)

\* the records of a CSV text
Records(text) == Split(text, "\n", FALSE, <<>>, <<>>)

\* the fields of a record, as written; an empty record has none
Fields(record) == IF record = <<>> THEN <<>> ELSE Split(record, ",", FALSE, <<>>, <<>>)

RECURSIVE Doubled(_)
\* every double quote of s is followed or preceded by its pair
Doubled(s) ==
  IF s = <<>> THEN TRUE
  ELSE IF Head(s) = "\"" THEN Len(s) >= 2 /\ s[2] = "\"" /\ Doubled(Tail(Tail(s)))
  ELSE Doubled(Tail(s))

\* the field is wrapped in double quotes, those inside it doubled
Quoted(field) ==
  /\ Len(field) >= 2
  /\ field[1] = "\"" /\ field[Len(field)] = "\""
  /\ Doubled(SubSeq(field, 2, Len(field) - 1))

RECURSIVE Undoubled(_)
Undoubled(s) ==
  IF s = <<>> THEN <<>>
  ELSE IF Head(s) = "\"" /\ Len(s) >= 2 /\ s[2] = "\"" THEN <<"\"">> \o Undoubled(Tail(Tail(s)))
  ELSE <<Head(s)>> \o Undoubled(Tail(s))

\* the value a reader of the CSV takes from a field
FieldValue(field) ==
  IF Quoted(field) THEN Undoubled(SubSeq(field, 2, Len(field) - 1)) ELSE field

\* the CSV export has just offered a document
CsvExported == lastOp.op = "export-csv" /\ lastOp.alert = ""

\* C9: the CSV export has a header record and one record per selected
\* feature, in insertion order, and every record, the header too, has as
\* many fields as the key union has keys.
C9_CsvShape ==
  CsvExported =>
    LET records == Records(lastOp.download.text)
    IN /\ Len(records) = Len(selected) + 1
       /\ \A r \in 1..Len(records) : Len(Fields(records[r])) = Len(allPropertyKeys)
       /\ \A i \in 1..Len(selected) :
            Map(Fields(records[i + 1]), FieldValue)
              = Map(allPropertyKeys,
                    LAMBDA k : CellValue(PropsOrEmpty(selected[i].feature), k))

\* C10: every field of the CSV export, in the header too, is wrapped in
\* double quotes with the quotes inside it doubled; the header fields are
\* the keys, a missing property is an empty quoted field, and for the key
\* union [id, city] the header is "id","city".
C10_CsvEveryFieldQuoted ==
  CsvExported =>
    LET records == Records(lastOp.download.text)
    IN /\ \A r \in 1..Len(records) :
            \A f \in 1..Len(Fields(records[r])) : Quoted(Fields(records[r])[f])
       /\ Map(Fields(records[1]), FieldValue) = allPropertyKeys
       /\ \A i \in 1..Len(selected), j \in 1..Len(allPropertyKeys) :
            ~HasKey(PropsOrEmpty(selected[i].feature), allPropertyKeys[j])
              => Fields(records[i + 1])[j] = <<"\"", "\"">>
       /\ allPropertyKeys = <<K_id, K_city>>
            => records[1] = <<"\"", "i", "d", "\"", ",", "\"", "c", "i", "t", "y", "\"">>

\* the export-geojson and export-csv click handlers
ExportOps == {"export-geojson", "export-csv"}

\* C11: an export leaves the layers, the selection and the key union as
\* they were; with nothing selected it raises the alert "No features
\* selected" and offers no document, otherwise it offers one and raises no
\* alert.
C11_ExportChecksSelection ==
  [][lastOp'.op \in ExportOps =>
       /\ UNCHANGED <<layers, selected, allPropertyKeys>>
       /\ IF selected = <<>>
          THEN lastOp'.alert = "No features selected" /\ lastOp'.download = NoDownload
          ELSE lastOp'.alert = "" /\ lastOp'.download # NoDownload]_vars

\* an export was asked for with a collection loaded and nothing selected
C11_ExportOfNothing ==
  /\ lastOp.op \in ExportOps
  /\ lastOp.alert = "No features selected"
  /\ layers # <<>>
  /\ selected = <<>>

\* the GeoJSON export has just offered a document
GeoJsonExported == lastOp.op = "export-geojson" /\ lastOp.alert = ""

\* C12: the text of the GeoJSON export parses to a FeatureCollection of the
\* selected features, geometry and properties as loaded, in insertion
\* order; loading it gives one layer per such feature, in that order, and
\* an empty selection.
C12_GeoJsonRoundTrip ==
  GeoJsonExported =>
    LET obj == JsonDocument(JSONParse(lastOp.download.text))
        features == [i \in 1..Len(selected) |-> selected[i].feature]
        loaded == LoadGeoJSON(obj)
    IN /\ obj = FeatureCollection(features)
       /\ ~loaded.threw
       /\ [i \in 1..Len(loaded.layers) |-> loaded.layers[i].feature] = features
       /\ loaded.selected = <<>>

\* two features were exported, the later layer selected first; one of them
\* has a double quote in a property value
C12_ExportedOutOfLayerOrder ==
  /\ GeoJsonExported
  /\ Len(selected) = 2
  /\ selected[1].lid > selected[2].lid
  /\ selected[1].feature = fB

\* the table a path reads
TableOfPath(path) == IF path = "/blocks" THEN "public.blocks" ELSE "public.buildings"

\* the last request gave a statement to pool.query
Queried == request.path # "" /\ statement # NoStatement

\* C13: the LIMIT of the statement is a number from 1 to 10000, and it is
\* 1000 when the limit parameter is absent or is no number.
C13_LimitWithinRange ==
  Queried =>
    LET limit == LimitOf(statement.text)
    IN /\ IsFinite(limit)
       /\ 10 * 1 <= limit.x /\ limit.x <= 10 * MaxLimit
       /\ ParamToNumber(request.query.limit) = NaN => limit = Whole(DefaultLimit)

\* the LIMIT of statement st is at most 10000, and the response rs to
\* request rq holds at most as many features as the LIMIT lets through,
\* rows of its table in tbls
AtMostLimitRows(rq, st, rs, tbls) ==
  rq.path # "" /\ st # NoStatement =>
    \A limit \in {LimitOf(st.text)} :
       /\ ~Less(Whole(MaxLimit), limit)
       /\ rs.status = 200 =>
            /\ rs.features \subseteq tbls[TableOfPath(rq.path)]
            /\ 10 * Cardinality(rs.features) <= limit.x + 5
            /\ Cardinality(rs.features) <= MaxLimit

\* C14: after every request, the LIMIT of its statement is at most 10000
\* and its response holds no more features than that.
C14_LimitNeverExceedsMax ==
  [][UNCHANGED tables =>
       \A rq \in {request'} : \A st \in {statement'} : \A rs \in {response'} :
         AtMostLimitRows(rq, st, rs, tables)]_vars

\* limit=999999 was asked of a table with rows, and answered
C14_HugeLimitAnswered ==
  /\ Queried
  /\ request.query.limit = Str(<<"9", "9", "9", "9", "9", "9">>)
  /\ LimitOf(statement.text) = Whole(MaxLimit)
  /\ response.status = 200
  /\ Cardinality(response.features) = 2

\* the value is the numeral of a finite number
FiniteNumeral(s) == Trim(s) # <<>> /\ IsFinite(StringToNumber(s))

\* a bbox parameter that is given and is not four finite numbers: given
\* more than once, of another arity, or with a component that is empty or
\* no finite number
MalformedBbox(p) ==
  \/ p.k = "array"
  \/ /\ p.k = "string" /\ p.s # <<>>
     /\ LET parts == SplitOn(p.s, ",", <<>>, <<>>)
        IN Len(parts) # 4 \/ \E i \in 1..Len(parts) : ~FiniteNumeral(parts[i])

\* C15: a request with a malformed bbox gives pool.query the statement the
\* request without bbox would give, and the handler does not fail on it.
C15_MalformedBboxIgnored ==
  request.path # "" /\ MalformedBbox(request.query.bbox) =>
    /\ statement = BuildStatement(TableOfPath(request.path),
                                  [request.query EXCEPT !.bbox = Undefined])
    /\ response.error # "req.query.bbox.split is not a function"

\* which filters a request has, and its limit
Shape(query) ==
  <<TextFilter(query) # <<>>, BboxUsed(Bbox(query)), Limit(query)>>

\* the numbers of the placeholders of a text, in the order they stand in it
PlaceholdersInOrder(text) ==
  LET at == SelectSeq([i \in 1..Len(text) |-> i], LAMBDA i : text[i] = "$")
  IN [n \in 1..Len(at) |-> ParseDigits(text, at[n] + 1, 0).v]

\* how many times the piece stands in the text
Occurrences(text, piece) == Cardinality({i \in 1..Len(text) : text[i] = piece})

\* C16: the text of the statement is that of every request with the same
\* filters present and the same limit, whatever their values; it has at
\* most one substring clause and one envelope clause; its placeholders are
\* $1..$n in order, n the number of values bound; the values are the text
\* filter, if any, then the four numbers of the bbox, if any.
C16_FiltersAreBoundParameters ==
  Queried =>
    LET query == request.query
        table == TableOfPath(request.path)
    IN /\ \A other \in Requests :
            ~BboxThrows(other) /\ Shape(other) = Shape(query)
              => BuildStatement(table, other).text = statement.text
       /\ Occurrences(statement.text, IlikePiece) <= 1
       /\ Occurrences(statement.text, EnvelopePiece) <= 1
       /\ PlaceholdersInOrder(statement.text) = [n \in 1..Len(statement.params) |-> n]
       /\ statement.params
            = (IF TextFilter(query) # <<>> THEN <<TextParam(TextFilter(query))>> ELSE <<>>)
              \o (IF BboxUsed(Bbox(query)) THEN Map(Bbox(query), NumberParam) ELSE <<>>)

\* a request with a quote as text filter and a bbox was answered with rows
C16_QuoteAndBboxBound ==
  /\ Queried
  /\ request.query.q = Str(<<"'">>)
  /\ Len(statement.params) = 5
  /\ response.status = 200
  /\ tables[TableOfPath(request.path)] # {}

\* when the table of request rq is empty, or no row of it matches the
\* statement st, and the database can be reached, the response rs is status
\* 200 with a FeatureCollection that has no features
EmptyCollectionWhenNoMatch(rq, st, rs, tbls) ==
  /\ rq.path # ""
  /\ rs.error # "connect ECONNREFUSED"
  /\ \/ tbls[TableOfPath(rq.path)] = {}
     \/ st # NoStatement /\ Matching(st.text, st.params, tbls) = {}
  => rs = Ok({})

\* C17: every request that no row matches is answered with status 200 and
\* a FeatureCollection that has no features.
C17_NoMatchIsEmptyCollection ==
  [][UNCHANGED tables =>
       \A rq \in {request'} : \A st \in {statement'} : \A rs \in {response'} :
         EmptyCollectionWhenNoMatch(rq, st, rs, tables)]_vars

\* a step in which loadBuildingsFromAPI resumes with fetchBuildings having
\* thrown
FetchFailedStep == pending' # pending /\ lastOp'.op = "fetchBuildings"

\* seq holds the elements of sub, one after another
HoldsPieces(seq, sub) ==
  \E j \in 0..(Len(seq) - Len(sub)) : \A k \in 1..Len(sub) : seq[j + k] = sub[k]

\* the message of the error names the HTTP status of the response, and
\* after it the body
CarriesStatusAndBody(op) ==
  HoldsPieces(op.error, NumToStr(op.failure.status) \o <<": ", op.failure.body>>)

\* the failed load raises the notice, hides the loading overlay and leaves
\* the collection, the selection and the key union as they were
NoticeAndStateKept ==
  /\ lastOp'.alert = "Failed to load buildings from API."
  /\ lastOp'.error # <<>>
  /\ loading' = FALSE
  /\ UNCHANGED <<layers, selected, allPropertyKeys>>

SelectionOps == {"toggleSelect", "select-all", "deselect-all", "clear-selection", "draw:created"}

SelectionOrCollectionChanged ==
  \/ lastOp.op \in SelectionOps /\ ~lastOp.threw
  \/ LoadedCollection

\* the text a browser displays for the source of a cell that was escaped
\* is the text itself: the source is the escaped text
EscapedCells(texts) == [i \in 1..Len(texts) |-> escapeHtml(texts[i])]

\* the string value of the property, or the empty string when it is absent
StringValues(keys, feature) ==
  [j \in 1..Len(keys) |-> CellValue(PropsOrEmpty(feature), keys[j])]

\* C20: after every operation that changes the selection or the collection
\* the header of the table is the key union and the body has one row per
\* selection entry, in order, numbered from 1, with the string value of each
\* property; header and body cells are HTML-escaped.
C20_TableShowsSelectionEscaped ==
  SelectionOrCollectionChanged =>
    /\ tableHead = <<<<"#">>>> \o EscapedCells(allPropertyKeys)
    /\ Len(tableBody) = Len(selected)
    /\ \A i \in 1..Len(tableBody) :
         /\ ~tableBody[i].hidden
         /\ tableBody[i].cells =
              <<NumToStr(i)>> \o EscapedCells(StringValues(allPropertyKeys, selected[i].feature))

\* C21: toggling a layer twice leaves the selection as it was, the order of
\* its entries included, and with it the rows of the table and the features
\* of the export.
C21_ToggleTwiceKeepsOrder ==
  \A i \in 1..Len(layers) :
    LET once == Toggle(Current, layers[i])
        twice == Toggle(once, once.layers[i])
    IN /\ twice.selected = selected
       /\ UpdateAttributeTable(allPropertyKeys, twice.selected).body =
            UpdateAttributeTable(allPropertyKeys, selected).body
       /\ ExportedCollection(twice.selected) = ExportedCollection(selected)

\* C22: a layer is drawn in the selected style exactly when its id is in
\* the selection, and in the default style otherwise.
C22_StyleMatchesSelection ==
  \A i \in 1..Len(layers) :
    /\ layers[i].style = selectedStyle <=> Has(selected, layers[i].id)
    /\ layers[i].style = defaultStyle <=> ~Has(selected, layers[i].id)

\* select-all has run on two layers, and both are drawn selected
C22_AllOfTwoSelected ==
  /\ lastOp.op = "select-all"
  /\ Len(layers) = 2
  /\ \A i \in 1..Len(layers) : layers[i].style = selectedStyle

\* C23: whenever features are selected, the columns of the table after the
\* row-number column are, in order, the columns of the header line the CSV
\* export writes.
C23_TableColumnsAreCsvColumns ==
  selected # <<>> =>
    /\ tableHead # <<>>
    /\ Join(Tail(tableHead), <<",">>) = Head(CsvRows(allPropertyKeys, selected))

\* an API load is in flight
ApiLoadInFlight == \E i \in 1..Len(pending) : pending[i].kind = "api"

\* C24: the loading indicator is shown exactly while an API load is in
\* flight.
C24_LoadingWhileApiInFlight == loading <=> ApiLoadInFlight

\* while the search box holds a query, the rows of `body` that are hidden
\* are the rows whose text does not contain it, whatever the case
FilterInForce(box, body) ==
  box # <<>> =>
    \A i \in 1..Len(body) :
      body[i].hidden <=>
        ~Found(ToLowerCase(TextContent(body[i])), ToLowerCase(Trim(box)))

\* C25: typing into the search box changes neither the collection, nor the
\* selection, nor the key union, and after every step the visible rows are
\* the rows whose text contains the query of the search box.
C25_FilterStaysInForce ==
  [][/\ searchBox' # searchBox => UNCHANGED <<layers, selected, allPropertyKeys>>
     /\ \A box \in {searchBox'} : \A body \in {tableBody'} : FilterInForce(box, body)]_vars

====
